---------------------------- MODULE Spec2Model ----------------------------
(***************************************************************************)
(* The shopping-cart page controller of ENSALADAZO                         *)
(* (frontend/JavaScript/cart.js): the session resolver, the cart loader    *)
(* and renderer, the quantity updater, the item remover and the two-phase  *)
(* checkout, as a state machine over the DOM, localStorage, the requests   *)
(* in flight and the backend's cart.                                       *)
(*                                                                         *)
(* Every async handler is cut at its await: one action runs the            *)
(* synchronous part up to the fetch, another runs the continuation once    *)
(* the fetch has settled.  A cart fetch settles (Settle) with the cart as  *)
(* the backend read it, and its continuation (LoadCartResponse) may run    *)
(* any time later, so a response can be stale when it is rendered.  A PUT, *)
(* DELETE or POST is answered in the step that runs its continuation: the  *)
(* page sees the backend's cart only through cart fetches, which may       *)
(* settle before or after that step.  Responses are taken in any order.    *)
(*                                                                         *)
(* The backend and the page markup are not part of the script; they are    *)
(* modelled from the specification's sections 3 and 6.  Money is in cents. *)
(***************************************************************************)
EXTENDS Integers, Sequences, FiniteSets, TLC

VARIABLES
  storage,        \* localStorage: user_session, token, username
  cartContainer,  \* #cart-items: what it shows and its .cart-item rows
  cartTotal,      \* #cart-total textContent
  modalOpen,      \* #checkoutModal is shown
  btn,            \* the form's submit button: disabled, textContent
  requests,       \* fetches in flight, in the order they were issued
  timers,         \* pending setTimeout(loadCart, 1000) callbacks
  shown,          \* notifications appended by the latest step
  page,           \* window.location: "cart" or "login"
  loaded,         \* DOMContentLoaded has fired
  backendCart,    \* the backend's cart of this session
  userRequests,   \* how many PUT, DELETE and POST requests the user has started
  lastFetched,    \* whether a cart fetch has returned an item sequence, and
                  \* the sequence the latest such fetch returned
  event           \* the latest step and the inputs it read

vars == <<storage, cartContainer, cartTotal, modalOpen, btn, requests, timers,
          shown, page, loaded, backendCart, userRequests, lastFetched, event>>

\* ------------------------------------------------------------------ bounds
\* A run holds at most this many requests started by the user's actions (the
\* PUT, DELETE and POST requests); the cart fetches that follow them come on top.
MaxUserRequests == 2

\* ------------------------------------------------------------- primitives
\* Strings are sequences of characters or tokens; null is a token of its own.
None == <<"null">>

\* The text of #cart-total before the script writes it is the page markup's.
MarkupText == <<"markup">>

RECURSIVE SumTotalPrice(_)
\* let total = 0; items.forEach(item => total += item.total_price)
SumTotalPrice(items) ==
  IF items = <<>> THEN 0
  ELSE SumTotalPrice(SubSeq(items, 1, Len(items) - 1)) + items[Len(items)].total_price

\* Number.prototype.toFixed(2) of an amount of c cents: the units, then the
\* two digits after the point
ToFixed2(c) == <<c \div 100, (c % 100) \div 10, c % 10>>

\* the literal '0.00'
ZeroText == <<0, 0, 0>>

RECURSIVE TrimStart(_)
TrimStart(s) == IF s # <<>> /\ Head(s) = " " THEN TrimStart(Tail(s)) ELSE s

RECURSIVE TrimEnd(_)
TrimEnd(s) ==
  IF s # <<>> /\ s[Len(s)] = " " THEN TrimEnd(SubSeq(s, 1, Len(s) - 1)) ELSE s

\* String.prototype.trim
Trim(s) == TrimEnd(TrimStart(s))

\* !x of a string or of null
Falsy(x) == x = None \/ x = <<>>

RemoveAt(s, i) == SubSeq(s, 1, i - 1) \o SubSeq(s, i + 1, Len(s))

\* ------------------------------------------------------------ the backend
\* The catalogue price of a product, in cents.
UnitPrice(id) == IF id = 1 THEN 550 ELSE 325

\* One line item of GET /api/cart/{sessionId}.
LineItem(e) ==
  [id |-> e.id, unit_price |-> UnitPrice(e.id), quantity |-> e.quantity,
   total_price |-> UnitPrice(e.id) * e.quantity]

CartItems(cart) == [k \in 1..Len(cart) |-> LineItem(cart[k])]

\* The carts the session may hold when the page opens: none, or one of
\* product 1 and two of product 2.
InitCarts ==
  { <<>>, <<[id |-> 1, quantity |-> 1], [id |-> 2, quantity |-> 2]>> }

HasItem(cart, id) == \E k \in 1..Len(cart) : cart[k].id = id

SetQuantity(cart, id, q) ==
  [k \in 1..Len(cart) |-> IF cart[k].id = id THEN [cart[k] EXCEPT !.quantity = q]
                          ELSE cart[k]]

DeleteItem(cart, id) == SelectSeq(cart, LAMBDA e : e.id # id)

\* ---------------------------------------------------------- notifications
Note(message, type) == [message |-> message, type |-> type]

\* showNotification(message, type) appends one element to the container
ShowNotification(message, type) == <<Note(message, type)>>

\* --------------------------------------------------------------- requests
\* The order payload sent with no order: the value of a request that has none.
NoOrder ==
  [user_session |-> None, customer_name |-> None, customer_email |-> None,
   customer_phone |-> None, customer_address |-> None]

\* A fetch in flight: its method, what its URL and body carry (the session of
\* /api/cart/{session}, the item of /api/cart/{itemId}, the quantity of a PUT
\* body, the order of a POST body), and how far it is: "sent", or "replied"
\* with the status and the JSON the continuation will read.
Request(method, session, itemId, quantity, order) ==
  [method |-> method, session |-> session, itemId |-> itemId,
   quantity |-> quantity, order |-> order,
   stage |-> "sent", status |-> "pending", data |-> <<>>]

\* The user's budget of requests, charged with what a step of theirs sent.
Charge(before, after) ==
  /\ userRequests' = userRequests + (Len(after) - Len(before))
  /\ userRequests' <= MaxUserRequests

\* ---------------------------------------------------- the session resolver
\* Math.random().toString(36).substr(2, 9)
RandomSuffixes == {<<"a">>, <<"b">>}

\* getUserSession without its `if (!session)`: a new value on every call
GetUserSessionAlwaysNew(st, rnd) ==
  [session |-> <<"user_">> \o rnd,
   storage |-> [st EXCEPT !.user_session = <<"user_">> \o rnd]]

\* getUserSession(): the value returned and localStorage after the call
GetUserSession(st, rnd) ==
  LET session == st.user_session IN
  IF Falsy(session)
    THEN [session |-> <<"user_">> \o rnd,
          storage |-> [st EXCEPT !.user_session = <<"user_">> \o rnd]]
    ELSE [session |-> session, storage |-> st]

\* ------------------------------------------------------ loading, rendering
\* renderCart with `total = item.total_price` for `total += item.total_price`
RenderCartAssign(items) ==
  IF Len(items) = 0
    THEN [container |-> [view |-> "empty", rows |-> <<>>], total |-> ZeroText]
    ELSE [container |-> [view |-> "rows", rows |-> items],
          total |-> ToFixed2(items[Len(items)].total_price)]

\* renderCart without `cartTotal.textContent = '0.00'` in its empty branch
RenderCartEmptyKeepsTotal(items) ==
  IF Len(items) = 0
    THEN [container |-> [view |-> "empty", rows |-> <<>>], total |-> cartTotal]
    ELSE [container |-> [view |-> "rows", rows |-> items],
          total |-> ToFixed2(SumTotalPrice(items))]

\* renderCart(items): the container and the total it leaves
RenderCart(items) ==
  IF Len(items) = 0
    THEN [container |-> [view |-> "empty", rows |-> <<>>], total |-> ZeroText]
    ELSE [container |-> [view |-> "rows", rows |-> items],
          total |-> ToFixed2(SumTotalPrice(items))]

\* loadCart() up to its await: the session is resolved, the GET is issued
LoadCartRequest(st, rnd) ==
  LET s == GetUserSession(st, rnd) IN
  [storage |-> s.storage,
   request |-> Request("GET", s.session, 0, 0, NoOrder)]

\* The static error message of loadCart's catch: no .cart-item rows.
ErrorView == [view |-> "error", rows |-> <<>>]

\* ------------------------------------------------------------- the steps
NoFields == [name |-> <<>>, phone |-> <<>>, address |-> <<>>, card |-> <<>>]

\* The record of a handler step: the handler, and the inputs it read.
Event(op) ==
  [op |-> op, itemId |-> 0, newQuantity |-> 0, confirmed |-> "not_asked",
   rows |-> 0, fields |-> NoFields, method |-> "none", status |-> "none"]

\* The submit button's label in the page markup.
OriginalLabel == <<"Confirmar Pago">>

\* localStorage when the page opens: a first visit (no session key, logged
\* out), or a later visit, logged in with or without a stored username.
InitStorages ==
  { [user_session |-> None, token |-> None, username |-> None],
    [user_session |-> <<"user_", "a">>, token |-> <<"jwt">>, username |-> None],
    [user_session |-> <<"user_", "a">>, token |-> <<"jwt">>, username |-> <<"ana">>] }

Init ==
  /\ storage \in InitStorages
  /\ cartContainer = [view |-> "markup", rows |-> <<>>]
  /\ cartTotal = MarkupText
  /\ modalOpen = FALSE
  /\ btn = [disabled |-> FALSE, textContent |-> OriginalLabel]
  /\ requests = <<>>
  /\ timers = 0
  /\ shown = <<>>
  /\ page = "cart"
  /\ loaded = FALSE
  /\ backendCart \in InitCarts
  /\ lastFetched = [returned |-> FALSE, items |-> <<>>]
  /\ event = Event("init")
  /\ userRequests = 0

\* document.addEventListener('DOMContentLoaded', () => loadCart())
DOMContentLoaded ==
  /\ page = "cart" /\ ~loaded
  /\ \E rnd \in RandomSuffixes :
       LET l == LoadCartRequest(storage, rnd) IN
       /\ storage' = l.storage
       /\ requests' = Append(requests, l.request)
  /\ loaded' = TRUE
  /\ shown' = <<>>
  /\ event' = Event("DOMContentLoaded")
  /\ UNCHANGED userRequests
  /\ UNCHANGED <<cartContainer, cartTotal, modalOpen, btn, timers, page,
                 backendCart, lastFetched>>

\* removeItem without its confirm()
RemoveItemRequestsUnconfirmed(reqs, itemId, confirmed) ==
  Append(reqs, Request("DELETE", None, itemId, 0, NoOrder))

\* removeItem(itemId) up to its await: the requests it leaves in flight
RemoveItemRequests(reqs, itemId, confirmed) ==
  IF ~confirmed THEN reqs
  ELSE Append(reqs, Request("DELETE", None, itemId, 0, NoOrder))

\* updateQuantity with `newQuantity < 0` for `newQuantity < 1`
UpdateQuantityRequestsBelowZero(reqs, itemId, newQuantity, confirmed) ==
  IF newQuantity < 0 THEN RemoveItemRequests(reqs, itemId, confirmed)
  ELSE Append(reqs, Request("PUT", None, itemId, newQuantity, NoOrder))

\* updateQuantity with a guard: nothing is sent while a PUT or DELETE is in
\* flight
UpdateQuantityRequestsGuarded(reqs, itemId, newQuantity, confirmed) ==
  IF \E k \in 1..Len(reqs) : reqs[k].method \in {"PUT", "DELETE"} THEN reqs
  ELSE IF newQuantity < 1 THEN RemoveItemRequests(reqs, itemId, confirmed)
  ELSE Append(reqs, Request("PUT", None, itemId, newQuantity, NoOrder))

\* updateQuantity(itemId, newQuantity) up to its await
UpdateQuantityRequests(reqs, itemId, newQuantity, confirmed) ==
  IF newQuantity < 1 THEN RemoveItemRequests(reqs, itemId, confirmed)
  ELSE Append(reqs, Request("PUT", None, itemId, newQuantity, NoOrder))

\* A call updateQuantity(itemId, newQuantity); confirm() is asked only on the
\* removal path.
UpdateQuantity(itemId, newQuantity) ==
  /\ \E confirmed \in (IF newQuantity < 1 THEN BOOLEAN ELSE {TRUE}) :
       /\ requests' = UpdateQuantityRequests(requests, itemId, newQuantity, confirmed)
       /\ event' = [Event("updateQuantity") EXCEPT
                      !.itemId = itemId, !.newQuantity = newQuantity,
                      !.confirmed = IF newQuantity >= 1 THEN "not_asked"
                                    ELSE IF confirmed THEN "accepted" ELSE "declined"]
  /\ Charge(requests, requests')
  /\ shown' = <<>>
  /\ UNCHANGED <<storage, cartContainer, cartTotal, modalOpen, btn, timers, page,
                 loaded, backendCart, lastFetched>>

\* The '-' control of row i: onclick="updateQuantity(id, quantity - 1)"
ClickMinus(i) ==
  /\ page = "cart"
  /\ UpdateQuantity(cartContainer.rows[i].id, cartContainer.rows[i].quantity - 1)

\* The '+' control of row i: onclick="updateQuantity(id, quantity + 1)"
ClickPlus(i) ==
  /\ page = "cart"
  /\ UpdateQuantity(cartContainer.rows[i].id, cartContainer.rows[i].quantity + 1)

\* The delete control of row i: onclick="removeItem(id)"
ClickRemove(i) ==
  /\ page = "cart"
  /\ \E confirmed \in BOOLEAN :
       /\ requests' = RemoveItemRequests(requests, cartContainer.rows[i].id,
                                         confirmed)
       /\ event' = [Event("removeItem") EXCEPT
                      !.itemId = cartContainer.rows[i].id,
                      !.confirmed = IF confirmed THEN "accepted" ELSE "declined"]
  /\ Charge(requests, requests')
  /\ shown' = <<>>
  /\ UNCHANGED <<storage, cartContainer, cartTotal, modalOpen, btn, timers, page,
                 loaded, backendCart, lastFetched>>

\* ---------------------------------------------------------------- checkout
\* The click listener without its check of the rendered rows
CheckoutOutcomeNoRowCheck(container, token, acceptLogin) ==
  IF Falsy(token) THEN (IF acceptLogin THEN "login" ELSE "stay")
  ELSE "modal"

\* The click listener with its `return` inside `if (confirm(...))`: a declined
\* prompt falls through to the modal
CheckoutOutcomeFallThrough(container, token, acceptLogin) ==
  LET cartItems == container.rows IN
  IF Len(cartItems) = 0 THEN "empty"
  ELSE IF Falsy(token) /\ acceptLogin THEN "login"
  ELSE "modal"

\* checkoutBtn's click listener decides, from the .cart-item rows in the
\* container, the stored token and the answer to its confirm(): "empty" (the
\* error notification), "login" (navigate to login.html), "stay" (the prompt
\* was declined) or "modal" (show the checkout modal).
CheckoutOutcome(container, token, acceptLogin) ==
  LET cartItems == container.rows IN
  IF Len(cartItems) = 0 THEN "empty"
  ELSE IF Falsy(token) THEN (IF acceptLogin THEN "login" ELSE "stay")
  ELSE "modal"

\* checkoutBtn's click listener; acceptLogin is the answer to its confirm()
CheckoutClick ==
  /\ page = "cart"
  /\ \E acceptLogin \in BOOLEAN :
       LET outcome == CheckoutOutcome(cartContainer, storage.token, acceptLogin) IN
       /\ shown' = IF outcome = "empty"
                     THEN ShowNotification("Tu carrito esta vacio", "error")
                     ELSE <<>>
       /\ page' = IF outcome = "login" THEN "login" ELSE page
       /\ modalOpen' = IF outcome = "modal" THEN TRUE ELSE modalOpen
       /\ event' = [Event("checkoutClick") EXCEPT
                      !.rows = Len(cartContainer.rows),
                      !.confirmed = IF Len(cartContainer.rows) = 0
                                       \/ ~Falsy(storage.token) THEN "not_asked"
                                    ELSE IF acceptLogin THEN "accepted"
                                    ELSE "declined"]
  /\ UNCHANGED userRequests
  /\ UNCHANGED <<storage, cartContainer, cartTotal, btn, requests, timers, loaded,
                 backendCart, lastFetched>>

\* The modal's own dismissal (its close control, Escape, the backdrop).
DismissModal ==
  /\ page = "cart" /\ modalOpen
  /\ modalOpen' = FALSE
  /\ shown' = <<>>
  /\ event' = Event("dismissModal")
  /\ UNCHANGED userRequests
  /\ UNCHANGED <<storage, cartContainer, cartTotal, btn, requests, timers, page,
                 loaded, backendCart, lastFetched>>

\* card.length < 12
MinCardLength == 12

CardOfLength(n) == [k \in 1..n |-> "4"]

\* What the user may have typed into the form's fields.
Fields(name, phone, address, card) ==
  [name |-> name, phone |-> phone, address |-> address, card |-> card]

FieldInputs ==
  { Fields(<<"A", " ">>, <<"5">>, <<" ", "c">>, CardOfLength(MinCardLength)),
    Fields(<<"A", " ">>, <<"5">>, <<" ", "c">>, CardOfLength(MinCardLength + 1) \o <<" ">>),
    Fields(<<" ">>, <<"5">>, <<" ", "c">>, CardOfLength(MinCardLength)),
    Fields(<<"A", " ">>, <<>>, <<" ", "c">>, CardOfLength(MinCardLength)),
    Fields(<<"A", " ">>, <<"5">>, <<" ", " ">>, CardOfLength(MinCardLength)),
    Fields(<<"A", " ">>, <<"5">>, <<" ", "c">>, CardOfLength(MinCardLength - 1)),
    Fields(<<"A", " ">>, <<"5">>, <<" ", "c">>, <<" ">> \o CardOfLength(MinCardLength - 1)) }

\* The validation with the card number's length taken before trimming
InvalidUntrimmedCard(f) ==
  \/ Falsy(Trim(f.name))
  \/ Falsy(Trim(f.phone))
  \/ Falsy(Trim(f.address))
  \/ Len(f.card) < MinCardLength

\* if (!name || !phone || !address || card.length < 12), on the trimmed values
Invalid(f) ==
  \/ Falsy(Trim(f.name))
  \/ Falsy(Trim(f.phone))
  \/ Falsy(Trim(f.address))
  \/ Len(Trim(f.card)) < MinCardLength

PlaceholderEmail == <<"invitado@ensaladazo.com">>

\* orderData with the card number added to it
OrderDataWithCard(st, userSession, f) ==
  [user_session |-> userSession,
   customer_name |-> Trim(f.name),
   customer_email |-> IF Falsy(st.username) THEN PlaceholderEmail ELSE st.username,
   customer_phone |-> Trim(f.phone),
   customer_address |-> Trim(f.address),
   card_number |-> Trim(f.card)]

\* orderData
OrderData(st, userSession, f) ==
  [user_session |-> userSession,
   customer_name |-> Trim(f.name),
   customer_email |-> IF Falsy(st.username) THEN PlaceholderEmail ELSE st.username,
   customer_phone |-> Trim(f.phone),
   customer_address |-> Trim(f.address)]

ProcessingLabel == <<"Procesando...">>
ConfirmLabel == <<"Confirmar Pago">>

\* The button relabelled but not disabled
ButtonProcessingEnabled == [disabled |-> FALSE, textContent |-> ProcessingLabel]

\* btn.disabled = true; btn.textContent = 'Procesando...'
ButtonProcessing == [disabled |-> TRUE, textContent |-> ProcessingLabel]

\* The label restored without `btn.disabled = false`
ButtonRestoredDisabled == [disabled |-> TRUE, textContent |-> ConfirmLabel]

\* btn.disabled = false; btn.textContent = 'Confirmar Pago'
ButtonRestored == [disabled |-> FALSE, textContent |-> ConfirmLabel]

\* The form's submit listener up to its await.  A disabled submit button
\* blocks the form's submission, and the form is inside the modal.
Submit ==
  /\ page = "cart" /\ modalOpen /\ ~btn.disabled
  /\ \E f \in FieldInputs, rnd \in RandomSuffixes :
       LET s == GetUserSession(storage, rnd) IN
       /\ storage' = s.storage
       /\ event' = [Event("submit") EXCEPT !.fields = f]
       /\ IF Invalid(f)
            THEN /\ shown' = ShowNotification(
                               "Por favor completa todos los campos correctamente",
                               "error")
                 /\ btn' = ButtonRestored
                 /\ UNCHANGED requests
            ELSE /\ requests' = Append(requests,
                      Request("POST", None, 0, 0, OrderData(storage, s.session, f)))
                 /\ btn' = ButtonProcessing
                 /\ shown' = <<>>
  /\ Charge(requests, requests')
  /\ UNCHANGED <<cartContainer, cartTotal, modalOpen, timers, page, loaded,
                 backendCart, lastFetched>>

\* ------------------------------------------------- the backend's answers
\* The backend's cart after it has carried out request r.
BackendEffect(cart, r) ==
  CASE r.method = "PUT" -> SetQuantity(cart, r.itemId, r.quantity)
    [] r.method = "DELETE" -> DeleteItem(cart, r.itemId)
    [] r.method = "POST" -> <<>>
    [] OTHER -> cart

\* Whether the backend can answer r with a 2xx: an update or a delete needs
\* its item.
BackendAccepts(cart, r) ==
  r.method \in {"PUT", "DELETE"} => HasItem(cart, r.itemId)

\* What the backend and the network make of request r.  The backend carries
\* the request out and answers 2xx (served, and it can), or answers non-2xx
\* and changes nothing; the answer reaches the page (delivered), or the fetch
\* rejects with a network error, before or after the backend acted.
Answer(cart, r, served, delivered) ==
  LET ok == served /\ BackendAccepts(cart, r) IN
  [cart |-> IF ok THEN BackendEffect(cart, r) ELSE cart,
   status |-> IF ~delivered THEN "network_error"
              ELSE IF ok THEN "ok" ELSE "http_error",
   data |-> IF delivered /\ ok /\ r.method = "GET" THEN CartItems(cart) ELSE <<>>]

\* The cart fetch i settles: its response holds the cart as the backend read
\* it, and waits for loadCart's continuation.
Settle(i) ==
  /\ requests[i].method = "GET"
  /\ requests[i].stage = "sent"
  /\ \E served \in BOOLEAN, delivered \in BOOLEAN :
       LET a == Answer(backendCart, requests[i], served, delivered) IN
       requests' = [requests EXCEPT ![i] =
           [@ EXCEPT !.stage = "replied", !.status = a.status, !.data = a.data]]
  /\ shown' = <<>>
  /\ event' = [Event("settle") EXCEPT !.method = "GET"]
  /\ UNCHANGED userRequests
  /\ UNCHANGED <<storage, cartContainer, cartTotal, modalOpen, btn, timers,
                 page, loaded, backendCart, lastFetched>>

\* ------------------------------------------------- the handlers' second half
\* The messages of updateQuantity and removeItem.
SuccessMessage(method) ==
  IF method = "PUT" THEN "Cantidad actualizada" ELSE "Producto eliminado"

ErrorMessage(method) ==
  IF method = "PUT" THEN "Error al actualizar cantidad"
  ELSE "Error al eliminar producto"

\* error.message in the submit listener's catch
OrderErrorText(status) ==
  IF status = "http_error" THEN "Error al procesar el pago: Error al procesar la orden"
  ELSE "Error al procesar el pago: Failed to fetch"

\* loadCart() after its await, with a catch that fetches again
LoadCartResponseRetry(i) ==
  /\ page = "cart"
  /\ requests[i].method = "GET"
  /\ requests[i].stage = "replied"
  /\ LET r == requests[i] IN
     /\ event' = [Event("response") EXCEPT !.method = "GET", !.status = r.status]
     /\ IF r.status = "ok"
          THEN /\ cartContainer' = RenderCart(r.data).container
               /\ cartTotal' = RenderCart(r.data).total
               /\ lastFetched' = [returned |-> TRUE, items |-> r.data]
               /\ shown' = <<>>
               /\ requests' = RemoveAt(requests, i)
          ELSE /\ shown' = ShowNotification("Error al cargar el carrito", "error")
               /\ cartContainer' = ErrorView
               /\ requests' = Append(RemoveAt(requests, i),
                                     Request("GET", r.session, 0, 0, NoOrder))
               /\ UNCHANGED <<cartTotal, lastFetched>>
  /\ UNCHANGED userRequests
  /\ UNCHANGED <<storage, modalOpen, btn, timers, page, loaded, backendCart>>

\* loadCart() after its await, on the settled cart fetch i
LoadCartResponse(i) ==
  /\ page = "cart"
  /\ requests[i].method = "GET"
  /\ requests[i].stage = "replied"
  /\ LET r == requests[i] IN
     /\ event' = [Event("response") EXCEPT !.method = "GET", !.status = r.status]
     /\ IF r.status = "ok"
          THEN /\ cartContainer' = RenderCart(r.data).container
               /\ cartTotal' = RenderCart(r.data).total
               /\ lastFetched' = [returned |-> TRUE, items |-> r.data]
               /\ shown' = <<>>
          ELSE /\ shown' = ShowNotification("Error al cargar el carrito", "error")
               /\ cartContainer' = ErrorView
               /\ UNCHANGED <<cartTotal, lastFetched>>
  /\ requests' = RemoveAt(requests, i)
  /\ UNCHANGED userRequests
  /\ UNCHANGED <<storage, modalOpen, btn, timers, page, loaded, backendCart>>

\* The continuation without its `await loadCart()`
MutationContinuationNoReload(method, status, rest, load) ==
  IF status = "ok"
    THEN [shown |-> ShowNotification(SuccessMessage(method), "success"),
          requests |-> rest]
    ELSE [shown |-> ShowNotification(ErrorMessage(method), "error"),
          requests |-> rest]

\* The continuation with loadCart() run on a failure as well
MutationContinuationReloadOnFailure(method, status, rest, load) ==
  IF status = "ok"
    THEN [shown |-> ShowNotification(SuccessMessage(method), "success"),
          requests |-> Append(rest, load)]
    ELSE [shown |-> ShowNotification(ErrorMessage(method), "error"),
          requests |-> Append(rest, load)]

\* What updateQuantity() and removeItem() do once their fetch has settled:
\* on a 2xx the success notification, then loadCart(), whose fetch `load`
\* joins the other fetches in flight (rest); otherwise the error notification.
MutationContinuation(method, status, rest, load) ==
  IF status = "ok"
    THEN [shown |-> ShowNotification(SuccessMessage(method), "success"),
          requests |-> Append(rest, load)]
    ELSE [shown |-> ShowNotification(ErrorMessage(method), "error"),
          requests |-> rest]

\* updateQuantity() or removeItem() after its await: the PUT or DELETE i is
\* answered and the continuation runs.
MutationResponse(i) ==
  /\ page = "cart"
  /\ requests[i].method \in {"PUT", "DELETE"}
  /\ \E served \in BOOLEAN, delivered \in BOOLEAN, rnd \in RandomSuffixes :
       LET r == requests[i]
           a == Answer(backendCart, r, served, delivered)
           rest == RemoveAt(requests, i)
           l == LoadCartRequest(storage, rnd)
           c == MutationContinuation(r.method, a.status, rest, l.request) IN
       /\ backendCart' = a.cart
       /\ event' = [Event("response") EXCEPT
                      !.method = r.method, !.status = a.status, !.itemId = r.itemId]
       /\ shown' = c.shown
       /\ requests' = c.requests
       /\ storage' = IF a.status = "ok" THEN l.storage ELSE storage
  /\ UNCHANGED userRequests
  /\ UNCHANGED <<cartContainer, cartTotal, lastFetched, modalOpen, btn, timers,
                 page, loaded>>

\* The submit listener after its await, with `setTimeout(loadCart, 1000)` in
\* its finally block
OrderResponseAlwaysSchedules(i) ==
  /\ page = "cart"
  /\ requests[i].method = "POST"
  /\ \E served \in BOOLEAN, delivered \in BOOLEAN :
       LET r == requests[i]
           a == Answer(backendCart, r, served, delivered) IN
       /\ backendCart' = a.cart
       /\ event' = [Event("response") EXCEPT !.method = "POST", !.status = a.status]
       /\ IF a.status = "ok"
            THEN /\ modalOpen' = FALSE
                 /\ shown' = ShowNotification("Pago realizado con exito!", "success")
            ELSE /\ shown' = ShowNotification(OrderErrorText(a.status), "error")
                 /\ UNCHANGED modalOpen
  /\ timers' = timers + 1
  /\ btn' = ButtonRestored
  /\ requests' = RemoveAt(requests, i)
  /\ UNCHANGED userRequests
  /\ UNCHANGED <<storage, cartContainer, cartTotal, lastFetched, page, loaded>>

\* The submit listener after its await: the POST i is answered and the
\* continuation runs, with its finally block.
OrderResponse(i) ==
  /\ page = "cart"
  /\ requests[i].method = "POST"
  /\ \E served \in BOOLEAN, delivered \in BOOLEAN :
       LET r == requests[i]
           a == Answer(backendCart, r, served, delivered) IN
       /\ backendCart' = a.cart
       /\ event' = [Event("response") EXCEPT !.method = "POST", !.status = a.status]
       /\ IF a.status = "ok"
            THEN /\ modalOpen' = FALSE
                 /\ shown' = ShowNotification("Pago realizado con exito!", "success")
                 /\ timers' = timers + 1
            ELSE /\ shown' = ShowNotification(OrderErrorText(a.status), "error")
                 /\ UNCHANGED <<modalOpen, timers>>
  /\ btn' = ButtonRestored
  /\ requests' = RemoveAt(requests, i)
  /\ UNCHANGED userRequests
  /\ UNCHANGED <<storage, cartContainer, cartTotal, lastFetched, page, loaded>>

\* setTimeout(loadCart, 1000) comes due
TimerFires ==
  /\ page = "cart" /\ timers > 0
  /\ \E rnd \in RandomSuffixes :
       LET l == LoadCartRequest(storage, rnd) IN
       /\ storage' = l.storage
       /\ requests' = Append(requests, l.request)
  /\ timers' = timers - 1
  /\ shown' = <<>>
  /\ event' = Event("timer")
  /\ UNCHANGED userRequests
  /\ UNCHANGED <<cartContainer, cartTotal, modalOpen, btn, page, loaded,
                 backendCart, lastFetched>>

Next ==
  \/ DOMContentLoaded
  \/ \E i \in 1..Len(cartContainer.rows) : ClickMinus(i)
  \/ \E i \in 1..Len(cartContainer.rows) : ClickPlus(i)
  \/ \E i \in 1..Len(cartContainer.rows) : ClickRemove(i)
  \/ CheckoutClick
  \/ DismissModal
  \/ Submit
  \/ \E i \in 1..Len(requests) : Settle(i)
  \/ \E i \in 1..Len(requests) : LoadCartResponse(i)
  \/ \E i \in 1..Len(requests) : MutationResponse(i)
  \/ \E i \in 1..Len(requests) : OrderResponse(i)
  \/ TimerFires

Spec == Init /\ [][Next]_vars

\* The event loop runs a callback scheduled with setTimeout once its delay
\* has passed.
FairSpec == Spec /\ WF_vars(TimerFires)

\* The runs in which every request succeeds: no fetch is answered non-2xx and
\* none is lost to a network error.
Succeeds ==
  /\ event.status \in {"none", "ok"}
  /\ \A i \in 1..Len(requests) : requests[i].status \in {"pending", "ok"}

\* The steps of Next, a fetch settling only with a 2xx.
SuccessNext ==
  \/ DOMContentLoaded
  \/ \E i \in 1..Len(cartContainer.rows) : ClickMinus(i)
  \/ \E i \in 1..Len(cartContainer.rows) : ClickPlus(i)
  \/ \E i \in 1..Len(cartContainer.rows) : ClickRemove(i)
  \/ CheckoutClick
  \/ DismissModal
  \/ Submit
  \/ \E i \in 1..Len(requests) : Settle(i) /\ Succeeds'
  \/ \E i \in 1..Len(requests) : LoadCartResponse(i)
  \/ \E i \in 1..Len(requests) : MutationResponse(i) /\ Succeeds'
  \/ \E i \in 1..Len(requests) : OrderResponse(i) /\ Succeeds'
  \/ TimerFires

SuccessSpec == Init /\ [][SuccessNext]_vars

\* ================================================================ claims
\* Vocabulary of the claims.
Indices(method) == {i \in 1..Len(requests) : requests[i].method = method}
IndicesAfter(method) == {i \in 1..Len(requests') : requests'[i].method = method}

\* The amount a displayed total reads as, in cents.
DisplayedCents(text) == text[1] * 100 + text[2] * 10 + text[3]

\* The sum of total_price over an item sequence.
PriceSum(items) ==
  LET RECURSIVE From(_)
      From(k) == IF k > Len(items) THEN 0 ELSE items[k].total_price + From(k + 1)
  IN From(1)

NoteOfType(type) == Len(shown) = 1 /\ shown[1].type = type

\* C1: once a cart fetch has returned an item sequence, the displayed total
\* is the sum of total_price over the sequence the latest such fetch
\* returned, whatever requests and responses came in between.
C1_TotalIsSumOfLastFetch ==
  lastFetched.returned =>
    /\ Len(cartTotal) = 3
    /\ DisplayedCents(cartTotal) = PriceSum(lastFetched.items)

\* C1 witness: a fetch rendered two items, 5.50 and 2 x 3.25, as 12.00, and
\* a later fetch failed.
C1_Witness ==
  /\ lastFetched.returned /\ Len(lastFetched.items) = 2
  /\ cartTotal = <<12, 0, 0>>
  /\ cartContainer.view = "error"

\* C2 as claimed: every call updateQuantity(itemId, q) with q < 1 puts a
\* DELETE for itemId in flight, and no PUT.
C2_Original ==
  [][(event'.op = "updateQuantity" /\ event'.newQuantity < 1) =>
       /\ Len(requests') = Len(requests) + 1
       /\ requests'[Len(requests')].method = "DELETE"
       /\ requests'[Len(requests')].itemId = event'.itemId]_vars

\* C2 amended: a call updateQuantity(itemId, q) with q < 1 puts a DELETE for
\* itemId in flight when the user accepts removeItem's confirmation and sends
\* nothing when the user declines; it never sends a PUT, and no PUT in flight
\* carries a quantity below 1.
C2_DeleteWhenConfirmed ==
  [][/\ (event'.op = "updateQuantity" /\ event'.newQuantity < 1) =>
          IF event'.confirmed = "accepted"
            THEN /\ Len(requests') = Len(requests) + 1
                 /\ SubSeq(requests', 1, Len(requests)) = requests
                 /\ requests'[Len(requests')].method = "DELETE"
                 /\ requests'[Len(requests')].itemId = event'.itemId
                 /\ requests'[Len(requests')].stage = "sent"
            ELSE requests' = requests
     /\ \A i \in IndicesAfter("PUT") : requests'[i].quantity >= 1]_vars

\* C2 witness: the '-' control of a row of quantity 1 was used, the
\* confirmation accepted, and the DELETE for that item is in flight.
C2_Witness ==
  /\ event.op = "updateQuantity" /\ event.newQuantity = 0
  /\ event.confirmed = "accepted"
  /\ requests # <<>>
  /\ requests[Len(requests)].method = "DELETE"
  /\ requests[Len(requests)].itemId = event.itemId

\* The submitted fields fail the claim's validation: a trimmed name, phone or
\* address is empty, or the trimmed card number has fewer than 12 characters.
FieldsRejected(f) ==
  \/ Len(Trim(f.name)) = 0
  \/ Len(Trim(f.phone)) = 0
  \/ Len(Trim(f.address)) = 0
  \/ Len(Trim(f.card)) < 12

\* C3: a submission whose fields fail validation sends no request, shows one
\* error notification and leaves the submit button enabled.
C3_InvalidSubmitSendsNothing ==
  [][(event'.op = "submit" /\ FieldsRejected(event'.fields)) =>
       /\ requests' = requests
       /\ NoteOfType("error")'
       /\ ~btn'.disabled]_vars

\* C3 witness: a form with an 11-character card number (12 typed, one of
\* them a leading blank) was submitted and rejected.
C3_Witness ==
  /\ event.op = "submit"
  /\ Len(event.fields.card) = 12 /\ Len(Trim(event.fields.card)) = 11
  /\ NoteOfType("error")
  /\ ~btn.disabled
  /\ Indices("POST") = {}

\* C4: the submit button is never left disabled without an order request in
\* flight, and whenever it is enabled it bears its original label; so every
\* submission, however it ends, leaves the button enabled and relabelled once
\* its order request, if any, has completed.
C4_ButtonRestored ==
  /\ btn.disabled => Indices("POST") # {}
  /\ ~btn.disabled => btn.textContent = OriginalLabel
  /\ (event.op = "response" /\ event.method = "POST") => ~btn.disabled
  /\ event.op = "submit" => (btn.disabled <=> ~FieldsRejected(event.fields))

\* C4 witness: an order request failed with a network error and the button
\* is enabled again under its label.
C4_Witness ==
  /\ event.op = "response" /\ event.method = "POST"
  /\ event.status = "network_error"
  /\ btn = [disabled |-> FALSE, textContent |-> OriginalLabel]
  /\ modalOpen

\* C5: while an order request is in flight the submit button is disabled,
\* and at most one order request is in flight.
C5_OneOrderInFlight ==
  /\ Cardinality(Indices("POST")) <= 1
  /\ Indices("POST") # {} => btn.disabled

\* C5 witness: with an order request in flight the modal was dismissed and
\* opened again by a checkout click; the button is still disabled.
C5_Witness ==
  /\ Indices("POST") # {}
  /\ event.op = "checkoutClick"
  /\ modalOpen
  /\ btn.disabled

\* C6: a checkout click with no .cart-item row in the container leaves the
\* modal as it is, shows one error notification and changes nothing else.
C6_NoRowsNoModal ==
  [][(event'.op = "checkoutClick" /\ Len(cartContainer.rows) = 0) =>
       /\ modalOpen' = modalOpen
       /\ NoteOfType("error")'
       /\ UNCHANGED <<storage, cartContainer, cartTotal, btn, requests, timers,
                      page, loaded, backendCart>>]_vars

\* C6 witness: a logged-in user clicked checkout on the load-error message;
\* the error notification is shown and the modal is closed.
C6_Witness ==
  /\ event.op = "checkoutClick" /\ event.rows = 0
  /\ cartContainer.view = "error"
  /\ ~Falsy(storage.token)
  /\ NoteOfType("error")
  /\ ~modalOpen

\* C7: a checkout click without a stored token leaves the modal as it is,
\* whatever the answer to the login prompt; and the modal opens only in a
\* checkout click made with at least one rendered row and a token stored.
C7_NoTokenNoModal ==
  [][/\ (event'.op = "checkoutClick" /\ Falsy(storage.token)) =>
          modalOpen' = modalOpen
     /\ (~modalOpen /\ modalOpen') =>
          /\ event'.op = "checkoutClick"
          /\ Len(cartContainer.rows) >= 1
          /\ ~Falsy(storage.token)]_vars

\* C7 witness: with rows rendered and no token, the login prompt was declined;
\* the page stays and the modal is closed.
C7_Witness ==
  /\ event.op = "checkoutClick" /\ event.rows >= 1
  /\ event.confirmed = "declined"
  /\ Falsy(storage.token)
  /\ page = "cart"
  /\ ~modalOpen

\* Two calls of the session resolver in a row, for any two random draws: the
\* first leaves a session stored and returns it, the second returns the same
\* and leaves storage alone.
ResolverIdempotent(st) ==
  \A r1 \in RandomSuffixes, r2 \in RandomSuffixes :
    LET first == GetUserSession(st, r1)
        second == GetUserSession(first.storage, r2) IN
    /\ ~Falsy(first.storage.user_session)
    /\ first.storage.user_session = first.session
    /\ second.session = first.session
    /\ second.storage = first.storage

\* The session id a request carries: in its URL (GET) or in its payload (POST).
CarriedSession(r) == IF r.method = "GET" THEN r.session ELSE r.order.user_session

\* C8: the session resolver is idempotent on every storage the page reaches;
\* no step overwrites a stored session; and every cart fetch and order
\* payload in flight carries the stored session.
C8_SessionStable ==
  [][/\ ResolverIdempotent(storage) /\ ResolverIdempotent(storage')
     /\ ~Falsy(storage.user_session) => storage'.user_session = storage.user_session
     /\ \A i \in IndicesAfter("GET") \cup IndicesAfter("POST") :
          CarriedSession(requests'[i]) = storage'.user_session]_vars

\* C8 witness: on a first visit the resolver generated "user_b"; a later call,
\* made by the cart reload after an update, sent the same value.
C8_Witness ==
  /\ storage.user_session = <<"user_", "b">>
  /\ event.op = "response" /\ event.method = "PUT" /\ event.status = "ok"
  /\ requests # <<>>
  /\ requests[Len(requests)].method = "GET"
  /\ requests[Len(requests)].session = <<"user_", "b">>

RemovalOps == {"removeItem", "updateQuantity"}

\* C9: a DELETE joins the requests in flight only in a removal step whose
\* confirmation was accepted, and for that step's item; a removal step whose
\* confirmation was declined sends nothing, notifies nothing, schedules
\* nothing and leaves the display alone.
C9_DeleteOnlyWhenConfirmed ==
  [][/\ Cardinality(IndicesAfter("DELETE")) > Cardinality(Indices("DELETE")) =>
          /\ event'.op \in RemovalOps
          /\ event'.confirmed = "accepted"
          /\ requests' = Append(requests, requests'[Len(requests')])
          /\ requests'[Len(requests')].method = "DELETE"
          /\ requests'[Len(requests')].itemId = event'.itemId
     /\ (event'.op \in RemovalOps /\ event'.confirmed = "declined") =>
          /\ shown' = <<>>
          /\ UNCHANGED <<requests, timers, cartContainer, cartTotal, storage,
                         modalOpen, btn, page, backendCart>>]_vars

\* C9 witness: the '-' control of a row of quantity 1 was used and the
\* confirmation declined: nothing is in flight, the rows are still shown.
C9_Witness ==
  /\ event.op = "updateQuantity" /\ event.newQuantity = 0
  /\ event.confirmed = "declined"
  /\ requests = <<>>
  /\ shown = <<>>
  /\ cartContainer.view = "rows"

\* C10: the continuation of a PUT or DELETE answered 2xx shows one success
\* notification and starts exactly one cart fetch for the stored session,
\* without touching the display; the display changes only in the
\* continuation of a cart fetch, and a cart fetch answered 2xx renders
\* exactly the item sequence it returned.
C10_SuccessThenReload ==
  [][/\ (event'.op = "response" /\ event'.method \in {"PUT", "DELETE"}
          /\ event'.status = "ok") =>
          /\ NoteOfType("success")'
          /\ Len(requests') = Len(requests)
          /\ Cardinality(IndicesAfter("GET")) = Cardinality(Indices("GET")) + 1
          /\ requests'[Len(requests')].method = "GET"
          /\ requests'[Len(requests')].stage = "sent"
          /\ requests'[Len(requests')].session = storage'.user_session
          /\ UNCHANGED <<cartContainer, cartTotal>>
     /\ (cartContainer' # cartContainer \/ cartTotal' # cartTotal) =>
          (event'.op = "response" /\ event'.method = "GET")
     /\ (event'.op = "response" /\ event'.method = "GET" /\ event'.status = "ok") =>
          \E i \in Indices("GET") :
            /\ requests[i].stage = "replied" /\ requests[i].status = "ok"
            /\ requests' = RemoveAt(requests, i)
            /\ cartContainer'.rows = requests[i].data
            /\ cartContainer'.view = IF requests[i].data = <<>> THEN "empty" ELSE "rows"
    ]_vars

\* C10 witness: a DELETE was answered 2xx while another request was in
\* flight; the success notification is shown and the cart fetch is sent.
C10_Witness ==
  /\ event.op = "response" /\ event.method = "DELETE" /\ event.status = "ok"
  /\ NoteOfType("success")
  /\ Len(requests) = 2
  /\ requests[2].method = "GET" /\ requests[2].stage = "sent"

\* C11: the continuation of a PUT or DELETE that failed (non-2xx or network
\* error) shows one error notification and does nothing else: the failed
\* request leaves the requests in flight and none joins them (no retry, no
\* cart fetch), no reload is scheduled, and the rows, the total, the modal,
\* the button and the storage stay as they were.
C11_FailedMutationOnlyNotifies ==
  [][(event'.op = "response" /\ event'.method \in {"PUT", "DELETE"}
        /\ event'.status # "ok") =>
       /\ NoteOfType("error")'
       /\ \E i \in Indices(event'.method) :
            /\ requests[i].itemId = event'.itemId
            /\ requests' = RemoveAt(requests, i)
       /\ UNCHANGED <<cartContainer, cartTotal, timers, storage, modalOpen,
                      btn, page>>]_vars

\* C11 witness: a PUT was answered non-2xx; the error notification is shown,
\* nothing is in flight and the rows are still displayed.
C11_Witness ==
  /\ event.op = "response" /\ event.method = "PUT"
  /\ event.status = "http_error"
  /\ NoteOfType("error")
  /\ requests = <<>>
  /\ cartContainer.view = "rows"

\* C12: the continuation of a cart fetch that failed (non-2xx or network
\* error) shows one error notification, puts the static error message in the
\* cart container, so that no item row remains, and sends nothing: the failed
\* fetch leaves the requests in flight and none joins them, and no reload is
\* scheduled.  A cart fetch joins the requests in flight only at page load,
\* in the continuation of a PUT or DELETE answered 2xx (a user action), or
\* when a reload scheduled by a successful order comes due.
C12_FailedLoadShowsError ==
  [][/\ (event'.op = "response" /\ event'.method = "GET"
          /\ event'.status # "ok") =>
          /\ NoteOfType("error")'
          /\ cartContainer'.view = "error"
          /\ Len(cartContainer'.rows) = 0
          /\ \E i \in Indices("GET") :
               /\ requests[i].stage = "replied" /\ requests[i].status # "ok"
               /\ requests' = RemoveAt(requests, i)
          /\ UNCHANGED <<timers, storage, modalOpen, btn, page>>
     /\ Cardinality(IndicesAfter("GET")) > Cardinality(Indices("GET")) =>
          \/ event'.op = "DOMContentLoaded"
          \/ event'.op = "timer" /\ timers' = timers - 1
          \/ /\ event'.op = "response" /\ event'.method \in {"PUT", "DELETE"}
             /\ event'.status = "ok"]_vars

\* C12 witness: two rows were rendered, then a cart fetch failed with a
\* network error: the error message is displayed and nothing is in flight.
C12_Witness ==
  /\ event.op = "response" /\ event.method = "GET"
  /\ event.status = "network_error"
  /\ NoteOfType("error")
  /\ cartContainer = [view |-> "error", rows |-> <<>>]
  /\ Len(lastFetched.items) = 2
  /\ requests = <<>>

\* C13: the continuation of an order request answered 2xx closes the modal,
\* shows one success notification and schedules one cart reload, sending
\* nothing yet; the continuation of an order request that failed (non-2xx or
\* network error) leaves the modal as it was, schedules nothing, sends nothing
\* and shows one error notification.  A reload is scheduled only by a
\* successful order, and each scheduled reload eventually comes due and sends
\* exactly one cart fetch for the stored session.
C13_OrderThenReload ==
  /\ [][/\ (event'.op = "response" /\ event'.method = "POST"
             /\ event'.status = "ok") =>
             /\ modalOpen' = FALSE
             /\ NoteOfType("success")'
             /\ timers' = timers + 1
             /\ Cardinality(IndicesAfter("GET")) = Cardinality(Indices("GET"))
             /\ Len(requests') = Len(requests) - 1
        /\ (event'.op = "response" /\ event'.method = "POST"
             /\ event'.status # "ok") =>
             /\ modalOpen' = modalOpen
             /\ NoteOfType("error")'
             /\ timers' = timers
             /\ Cardinality(IndicesAfter("GET")) = Cardinality(Indices("GET"))
             /\ Len(requests') = Len(requests) - 1
        /\ timers' > timers =>
             (event'.op = "response" /\ event'.method = "POST"
              /\ event'.status = "ok")
        /\ timers' < timers =>
             /\ event'.op = "timer"
             /\ timers' = timers - 1
             /\ requests' = Append(requests,
                   Request("GET", storage'.user_session, 0, 0, NoOrder))]_vars
  /\ \A n \in 1..MaxUserRequests : (timers = n) ~> (timers = n - 1)

\* C13 witness: an order succeeded and closed the modal; its scheduled reload
\* has come due and its cart fetch is in flight, the rows of the ordered cart
\* still displayed.
C13_Witness ==
  /\ event.op = "timer"
  /\ timers = 0
  /\ ~modalOpen
  /\ backendCart = <<>>
  /\ cartContainer.view = "rows"
  /\ requests = <<Request("GET", storage.user_session, 0, 0, NoOrder)>>

\* C14: renderCart of the empty item sequence leaves the empty-state view, no
\* item row and the total "0.00"; and so does every cart fetch whose 2xx
\* response holds the empty sequence, whatever rows and total were displayed
\* when its continuation ran.
C14_EmptyRendersZero ==
  [][/\ RenderCart(<<>>).container.view = "empty"
     /\ Len(RenderCart(<<>>).container.rows) = 0
     /\ RenderCart(<<>>).total = <<0, 0, 0>>
     /\ \A i \in Indices("GET") :
          (/\ event'.op = "response" /\ event'.method = "GET"
           /\ requests[i].stage = "replied" /\ requests[i].status = "ok"
           /\ Len(requests[i].data) = 0
           /\ requests' = RemoveAt(requests, i)) =>
            /\ cartContainer'.view = "empty"
            /\ Len(cartContainer'.rows) = 0
            /\ Len(cartTotal') = 3
            /\ cartTotal' = <<0, 0, 0>>]_vars

\* C14 witness: rows were displayed and the cart was emptied from them; the
\* cart fetch that followed returned the empty sequence and left the
\* empty-state view and "0.00".
C14_Witness ==
  /\ event.op = "response" /\ event.method = "GET" /\ event.status = "ok"
  /\ userRequests >= 1
  /\ lastFetched.returned /\ lastFetched.items = <<>>
  /\ cartContainer = [view |-> "empty", rows |-> <<>>]
  /\ cartTotal = <<0, 0, 0>>

\* The fields of an order payload, as the claim lists them.
PayloadFields ==
  {"user_session", "customer_name", "customer_email", "customer_phone",
   "customer_address"}

\* f and g differ at most in the card number, and g's has 12 characters or more.
SameButCard(f, g) ==
  /\ g.name = f.name /\ g.phone = f.phone /\ g.address = f.address
  /\ Len(Trim(g.card)) >= 12

\* The card numbers the user may type, as typed and trimmed.
CardNumbers ==
  {g.card : g \in FieldInputs} \cup {Trim(g.card) : g \in FieldInputs}

\* The values a request carries in its URL and body.
Carried(r) ==
  {r.session} \cup {r.order[k] : k \in DOMAIN r.order}

\* C15: after a submission that passed validation, the request sent last is
\* a POST whose payload has exactly the fields user_session, customer_name,
\* customer_email, customer_phone and customer_address, the e-mail being the
\* stored username when there is one and the placeholder otherwise; the same
\* submission with any other card number of 12 characters or more would have
\* sent the same request; and no request in flight carries a card number.
C15_CardNeverSent ==
  /\ (event.op = "submit" /\ ~FieldsRejected(event.fields)) =>
       LET f == event.fields
           sent == requests[Len(requests)] IN
       /\ requests # <<>>
       /\ sent.method = "POST" /\ sent.stage = "sent"
       /\ DOMAIN sent.order = PayloadFields
       /\ sent.order.user_session = storage.user_session
       /\ sent.order.customer_name = Trim(f.name)
       /\ sent.order.customer_phone = Trim(f.phone)
       /\ sent.order.customer_address = Trim(f.address)
       /\ sent.order.customer_email =
            IF storage.username = None \/ storage.username = <<>>
              THEN <<"invitado@ensaladazo.com">> ELSE storage.username
       /\ \A g \in FieldInputs : SameButCard(f, g) =>
            \A rnd \in RandomSuffixes :
              Request("POST", None, 0, 0,
                      OrderData(storage, GetUserSession(storage, rnd).session, g))
                = sent
  /\ \A i \in 1..Len(requests) : Carried(requests[i]) \cap CardNumbers = {}

\* C15 witness: a logged-in user with a stored username submitted the form
\* with the 13-digit card number; the order request in flight carries the
\* username as e-mail.
C15_Witness ==
  /\ event.op = "submit"
  /\ Len(Trim(event.fields.card)) = 13
  /\ requests # <<>>
  /\ requests[Len(requests)].method = "POST"
  /\ requests[Len(requests)].order.customer_email = <<"ana">>
  /\ storage.username = <<"ana">>

\* The PUT and DELETE requests in flight.
Mutations == Indices("PUT") \cup Indices("DELETE")

\* C16: updates and deletes have no in-flight guard and no order among their
\* responses, while orders are limited to one outstanding.  After an update
\* to a quantity of 1 or more its PUT is the request sent last, and after a
\* confirmed removal its DELETE, whatever else is in flight; as long as the
\* page is open, the continuation of any PUT or DELETE in flight can run
\* next, any cart fetch in flight can settle next and the continuation of any
\* settled one can run next, wherever they stand among the requests; and at
\* most one order request is in flight.
C16_NoGuardForMutations ==
  /\ (event.op = "updateQuantity" /\ event.newQuantity >= 1) =>
       /\ requests # <<>>
       /\ requests[Len(requests)] =
            Request("PUT", None, event.itemId, event.newQuantity, NoOrder)
  /\ (event.op \in RemovalOps /\ event.confirmed = "accepted") =>
       /\ requests # <<>>
       /\ requests[Len(requests)] =
            Request("DELETE", None, event.itemId, 0, NoOrder)
  /\ page = "cart" =>
       /\ \A i \in Mutations : ENABLED MutationResponse(i)
       /\ \A i \in Indices("GET") :
            IF requests[i].stage = "sent" THEN ENABLED Settle(i)
            ELSE ENABLED LoadCartResponse(i)
  /\ Cardinality(Indices("POST")) <= 1

\* C16 witness: two clicks in a row left a PUT and a DELETE in flight at
\* once, the rows they were made on still displayed.
C16_Witness ==
  /\ Len(requests) = 2
  /\ requests[1].method = "PUT" /\ requests[1].stage = "sent"
  /\ requests[2].method = "DELETE" /\ requests[2].stage = "sent"
  /\ cartContainer.view = "rows"

\* The ids and quantities of the rows displayed.
RenderedCart ==
  [k \in 1..Len(cartContainer.rows) |->
     [id |-> cartContainer.rows[k].id, quantity |-> cartContainer.rows[k].quantity]]

\* C17: with this page the cart's only writer and every request succeeding,
\* whenever the page has sent at least one PUT, DELETE or POST and nothing is
\* outstanding (no request in flight, no reload scheduled), the rows displayed
\* are the backend's cart, ids and quantities.
C17_DisplayConverges ==
  (userRequests >= 1 /\ requests = <<>> /\ timers = 0) =>
    RenderedCart = backendCart

\* C18: once a cart load has completed, successfully or not, and the script
\* has written the total, the total displayed is the sum of the line totals
\* of the rows displayed, zero when no row is displayed.
C18_TotalMatchesRows ==
  (cartContainer.view # "markup" /\ Len(cartTotal) = 3) =>
    DisplayedCents(cartTotal) = PriceSum(cartContainer.rows)

\* C19: with the backend emptying the cart when it creates an order and this
\* page the cart's only writer, a submission that sends an order request
\* finds at least one item in the backend's cart.
C19_NoOrderForEmptyCart ==
  (/\ event.op = "submit"
   /\ requests # <<>>
   /\ requests[Len(requests)].method = "POST") =>
    Len(backendCart) >= 1

\* An order succeeded and emptied the backend's cart; before its scheduled
\* reload came due, the rows still displayed let a checkout click open the
\* modal, and the form was submitted again.
C19_SecondOrderBeforeReload ==
  /\ event.op = "submit"
  /\ requests # <<>> /\ requests[Len(requests)].method = "POST"
  /\ timers = 1
  /\ userRequests = 2
  /\ backendCart = <<>>
  /\ cartContainer.view = "rows"

=============================================================================
